---- MODULE Spec2Model ----
(***************************************************************************)
(* API-key subsystem of manadia: models.APIKey, repository.APIKeyRepository,*)
(* service.APIKeyService and the HTTP handlers of main.py that use them.   *)
(*                                                                         *)
(* Strings are sequences of one-character strings.  Time is counted in     *)
(* days.  A database that cannot be reached makes the query sent to it     *)
(* raise; which query of an operation that is, if any, is an input of the  *)
(* operation (failAt).                                                     *)
(***************************************************************************)
EXTENDS Integers, Sequences, FiniteSets, TLC

VARIABLES
    api_keys,   \* the api_keys table: a sequence of rows, row i has id i
    now,        \* datetime.utcnow(), in days
    env,        \* the API_KEY_EXPIRATION_DAYS environment variable: <<>> unset, <<n>> set to n
    last,       \* the most recent operation: its input, its result and the table before it
    revoked,    \* history: the keys for which a revocation has returned True
    requests,   \* the service calls in progress, each in a session of its own
    boot        \* the call of database.init_db at startup: its arguments, position and events

vars == <<api_keys, now, env, last, revoked, requests, boot>>

----------------------------------------------------------------------------
(* Bounds of the model *)

MaxKeys == 2        \* rows the table may hold
MaxTicks == 1       \* clock advances
MaxSalt == 1        \* distinct salts bcrypt.gensalt may return
MaxFailAt == 2      \* the latest query of an operation that may find the database down
MaxRequests == 2    \* service calls that may be in progress together
MaxRetries == 4     \* the largest `retries` init_db is called with

(* Program constants *)

PrefixLen == 8              \* plaintext_key[:8]
TokenBytes == 32            \* secrets.token_urlsafe(32)
MaxUserNameLen == 255
MaxDescriptionLen == 1000
DefaultExpirationDays == 365
DefaultDelay == 3            \* init_db(retries=5, delay=3)
HashModulus == 65521        \* range of the modelled digest (the model's stand-in for bcrypt's output space)

\* length of the url-safe base64 text of TokenBytes bytes, without padding
TokenLen == (TokenBytes * 4 + 2) \div 3

----------------------------------------------------------------------------
(* Values *)

None == <<"None">>      \* Python None where a string is expected
NoTime == -1            \* Python None where a datetime is expected
NoRecord == 0           \* Python None where an APIKey row is expected (ids start at 1)

Min(a, b) == IF a < b THEN a ELSE b

Rep(c, n) == [i \in 1..n |-> c]

\* s[:n]
Slice(s, n) == SubSeq(s, 1, Min(n, Len(s)))

\* bool(s) for an optional string
Truthy(s) == s # None /\ Len(s) > 0

\* the alphanumeric characters the model's strings are made of
AlnumChars == {"a", "b", "d", "h", "o", "r", "s", "t", "1", "A", "B"}

\* str.replace(c, '')
Replace(s, c) == SelectSeq(s, LAMBDA x: x # c)

\* str.isalnum(): every character alphanumeric and at least one character
IsAlnum(s) == Len(s) > 0 /\ \A i \in 1..Len(s): s[i] \in AlnumChars

CharCode(c) ==
    CASE c = "A" -> 1 [] c = "B" -> 2 [] c = "a" -> 3 [] c = "b" -> 4
      [] c = "1" -> 5 [] c = "-" -> 6 [] c = "_" -> 7 [] OTHER -> 8

----------------------------------------------------------------------------
(* secrets, and the keys of the model *)

\* plaintexts secrets.token_urlsafe may return: TokenLen characters, here
\* differing in the last character of the prefix and in the last character
Token(p, t) ==
    [i \in 1..TokenLen |-> IF i = PrefixLen THEN p ELSE IF i = TokenLen THEN t ELSE "A"]

Tokens == {Token("A", "A"), Token("A", "B"), Token("B", "A")}

Salts == 1..MaxSalt

\* keys a caller may present: every token, the empty string, a string shorter
\* than a prefix, and the bare prefix of a token
PresentedKeys ==
    Tokens \cup {<<>>, <<"s", "h", "o", "r", "t">>, Slice(Token("A", "A"), PrefixLen)}

----------------------------------------------------------------------------
(* bcrypt *)

\* the digest of the first n characters of s under a salt
RECURSIVE DigestUpTo(_, _, _)
DigestUpTo(salt, s, n) ==
    IF n = 0 THEN salt
    ELSE (DigestUpTo(salt, s, n - 1) * 31 + CharCode(s[n])) % HashModulus

Digest(salt, s) == DigestUpTo(salt, s, Len(s))

\* the digests of the model's keys, computed once
DigestTable == [salt \in Salts |-> [s \in PresentedKeys |-> Digest(salt, s)]]

\* Digest, looked up in the table where the table has it
Hashed(salt, s) ==
    IF salt \in Salts /\ s \in PresentedKeys THEN DigestTable[salt][s] ELSE Digest(salt, s)

\* bcrypt.hashpw(plaintext, salt): the salt is embedded in the hash
hashpw(plaintext, salt) == [salt |-> salt, digest |-> Hashed(salt, plaintext)]

\* bcrypt.checkpw(plaintext, hash): re-hash with the embedded salt and compare
checkpw(plaintext, hash) == Hashed(hash.salt, plaintext) = hash.digest

\* a stored hash that is no bcrypt hash (a damaged or foreign value)
InvalidHash == [salt |-> 0, digest |-> -1]

\* bcrypt.checkpw raises ValueError("Invalid salt") on a hash it cannot parse
checkpw_raises(hash) == hash.salt < 1

----------------------------------------------------------------------------
(* models.APIKey *)

APIKeyColumns ==
    {"id", "key_prefix", "key_hash", "user_name", "description",
     "created_at", "expires_at", "last_used", "is_active"}

\* an APIKey row as the database completes it on insert (id, created_at and
\* is_active take their column defaults)
APIKey(id, key_prefix, key_hash, user_name, description, created_at, expires_at) ==
    [id |-> id, key_prefix |-> key_prefix, key_hash |-> key_hash,
     user_name |-> user_name, description |-> description,
     created_at |-> created_at, expires_at |-> expires_at,
     last_used |-> NoTime, is_active |-> 1]

----------------------------------------------------------------------------
(* repository.APIKeyRepository.  Every operation returns the exception it
   raised ("" for none), its result, the table after it and the number of
   queries it sent to the database. *)

\* APIKeyRepository.create
create(keys, key_hash, key_prefix, user_name, description, expires_at, clock, dbUp) ==
    IF ~dbUp
    THEN [raised |-> "OperationalError", id |-> NoRecord, keys |-> keys, queries |-> 1]
    ELSE IF \E i \in 1..Len(keys): keys[i].key_hash = key_hash
    THEN [raised |-> "IntegrityError", id |-> NoRecord, keys |-> keys, queries |-> 1]
    ELSE [raised |-> "", id |-> Len(keys) + 1, queries |-> 1,
          keys |-> Append(keys, APIKey(Len(keys) + 1, key_prefix, key_hash, user_name,
                                       description, clock, expires_at))]

\* (mutant) the loop taking the first candidate of the prefix, its hash unchecked
FirstMatch_first_candidate(candidates, plaintext_key) ==
    IF Len(candidates) = 0 THEN NoRecord ELSE Head(candidates).id

\* (mutant) the loop ended by a hash that bcrypt cannot parse
RECURSIVE FirstMatch_stops_at_invalid(_, _)
FirstMatch_stops_at_invalid(candidates, plaintext_key) ==
    IF Len(candidates) = 0 THEN NoRecord
    ELSE IF checkpw_raises(Head(candidates).key_hash) THEN NoRecord
    ELSE IF checkpw(plaintext_key, Head(candidates).key_hash) THEN Head(candidates).id
    ELSE FirstMatch_stops_at_invalid(Tail(candidates), plaintext_key)

\* the loop of get_by_key_hash over candidate_keys: the first one whose hash
\* matches; a candidate on which checkpw raises is skipped (except: continue)
RECURSIVE FirstMatch(_, _)
FirstMatch(candidates, plaintext_key) ==
    IF Len(candidates) = 0 THEN NoRecord
    ELSE IF checkpw_raises(Head(candidates).key_hash)
    THEN FirstMatch(Tail(candidates), plaintext_key)
    ELSE IF checkpw(plaintext_key, Head(candidates).key_hash) THEN Head(candidates).id
    ELSE FirstMatch(Tail(candidates), plaintext_key)

\* (mutant) the candidate query without its is_active filter
CandidateKeys_any_state(keys, key_prefix) ==
    SelectSeq(keys, LAMBDA r: r.key_prefix = key_prefix)

\* the candidate query of get_by_key_hash: rows with that prefix that are active
CandidateKeys(keys, key_prefix) ==
    SelectSeq(keys, LAMBDA r: r.key_prefix = key_prefix /\ r.is_active = 1)

\* (mutant) the guard without its length test
TooShort_empty_only(plaintext_key) == Len(plaintext_key) = 0

\* the guard at the head of get_by_key_hash
TooShort(plaintext_key) == Len(plaintext_key) = 0 \/ Len(plaintext_key) < PrefixLen

\* APIKeyRepository.get_by_key_hash
get_by_key_hash(keys, plaintext_key, dbUp) ==
    IF TooShort(plaintext_key)
    THEN [raised |-> "", id |-> NoRecord, queries |-> 0]
    ELSE IF ~dbUp
    THEN [raised |-> "OperationalError", id |-> NoRecord, queries |-> 1]
    ELSE [raised |-> "", queries |-> 1,
          id |-> FirstMatch(CandidateKeys(keys, Slice(plaintext_key, PrefixLen)),
                            plaintext_key)]

\* (mutant) update_last_used that writes the whole row back as the session
\* loaded it, active
update_last_used_whole_row(keys, key, clock, dbUp) ==
    IF ~dbUp
    THEN [raised |-> "OperationalError", keys |-> keys, queries |-> 1]
    ELSE [raised |-> "", queries |-> 1,
          keys |-> [keys EXCEPT ![key].last_used = clock, ![key].is_active = 1]]

\* APIKeyRepository.update_last_used as the class ends up with it: the second
\* definition of that name replaces the first, and filters on APIKey.key
update_last_used(keys, key, clock, dbUp) ==
    IF "key" \notin APIKeyColumns
    THEN [raised |-> "AttributeError", keys |-> keys, queries |-> 0]
    ELSE IF ~dbUp
    THEN [raised |-> "OperationalError", keys |-> keys, queries |-> 1]
    ELSE [raised |-> "", queries |-> 1,
          keys |-> [i \in 1..Len(keys) |->
                      IF keys[i]["key"] = key /\ \A j \in 1..(i - 1): keys[j]["key"] # key
                      THEN [keys[i] EXCEPT !.last_used = clock] ELSE keys[i]]]

\* (mutant) revoke that reports success without writing is_active
revoke_unwritten(keys, key_id, dbUp) ==
    IF ~dbUp
    THEN [raised |-> "OperationalError", ret |-> FALSE, keys |-> keys, queries |-> 1]
    ELSE [raised |-> "", ret |-> key_id \in 1..Len(keys), keys |-> keys, queries |-> 1]

\* (mutant) revoke that also clears the expiry of the row
revoke_clearing_expiry(keys, key_id, dbUp) ==
    IF ~dbUp
    THEN [raised |-> "OperationalError", ret |-> FALSE, keys |-> keys, queries |-> 1]
    ELSE IF key_id \in 1..Len(keys)
    THEN [raised |-> "", ret |-> TRUE, queries |-> 1,
          keys |-> [keys EXCEPT ![key_id].is_active = 0, ![key_id].expires_at = NoTime]]
    ELSE [raised |-> "", ret |-> FALSE, keys |-> keys, queries |-> 1]

\* (mutant) revoke that looks among the active rows only
revoke_active_only(keys, key_id, dbUp) ==
    IF ~dbUp
    THEN [raised |-> "OperationalError", ret |-> FALSE, keys |-> keys, queries |-> 1]
    ELSE IF key_id \in 1..Len(keys) /\ keys[key_id].is_active = 1
    THEN [raised |-> "", ret |-> TRUE, queries |-> 1,
          keys |-> [keys EXCEPT ![key_id].is_active = 0]]
    ELSE [raised |-> "", ret |-> FALSE, keys |-> keys, queries |-> 1]

\* APIKeyRepository.revoke
revoke(keys, key_id, dbUp) ==
    IF ~dbUp
    THEN [raised |-> "OperationalError", ret |-> FALSE, keys |-> keys, queries |-> 1]
    ELSE IF key_id \in 1..Len(keys)
    THEN [raised |-> "", ret |-> TRUE, queries |-> 1,
          keys |-> [keys EXCEPT ![key_id].is_active = 0]]
    ELSE [raised |-> "", ret |-> FALSE, keys |-> keys, queries |-> 1]

----------------------------------------------------------------------------
(* service.APIKeyService.  Results carry the exception that left the method
   ("" for none), the returned value, the table after the call, the number of
   queries sent and the line the method logged.  failAt numbers the query of
   the call at which the database is unreachable (0: at none). *)

DbUp(failAt, sent) == failAt # sent + 1

\* (mutant) the validation without the upper bound on the length of user_name
ValidationError_no_upper_bound(user_name, description) ==
    IF ~Truthy(user_name) THEN "user_name must be a non-empty string"
    ELSE IF Len(user_name) < 1
    THEN "user_name must be 1-255 characters"
    ELSE IF ~IsAlnum(Replace(Replace(user_name, "_"), "-"))
    THEN "user_name must contain only alphanumeric characters, hyphens, and underscores"
    ELSE IF Truthy(description) /\ Len(description) > MaxDescriptionLen
    THEN "description must be 1000 characters or less"
    ELSE ""

\* the validation at the head of generate_api_key: the ValueError it raises, "" for none
ValidationError(user_name, description) ==
    IF ~Truthy(user_name) THEN "user_name must be a non-empty string"
    ELSE IF Len(user_name) < 1 \/ Len(user_name) > MaxUserNameLen
    THEN "user_name must be 1-255 characters"
    ELSE IF ~IsAlnum(Replace(Replace(user_name, "_"), "-"))
    THEN "user_name must contain only alphanumeric characters, hyphens, and underscores"
    ELSE IF Truthy(description) /\ Len(description) > MaxDescriptionLen
    THEN "description must be 1000 characters or less"
    ELSE ""

\* expires_at as generate_api_key computes it
ExpiresAt(clock, days) == IF days > 0 THEN clock + days ELSE NoTime

\* APIKeyService.generate_api_key; plaintext_key and salt are what
\* secrets.token_urlsafe and bcrypt.gensalt returned
generate_api_key(keys, clock, days, user_name, description, plaintext_key, salt, failAt) ==
    LET err == ValidationError(user_name, description)
        key_prefix == Slice(plaintext_key, PrefixLen)
        key_hash == hashpw(plaintext_key, salt)
        expires_at == ExpiresAt(clock, days)
        created == create(keys, key_hash, key_prefix, user_name, description,
                          expires_at, clock, DbUp(failAt, 0))
    IN  IF err # ""
        THEN [raised |-> "ValueError", detail |-> err, ret |-> <<>>, keys |-> keys,
              queries |-> 0, log |-> ""]
        ELSE IF created.raised # ""
        THEN [raised |-> created.raised, detail |-> "", ret |-> <<>>, keys |-> keys,
              queries |-> created.queries, log |-> ""]
        ELSE [raised |-> "", detail |-> "", keys |-> created.keys,
              queries |-> created.queries, log |-> "info: API key generated",
              ret |-> <<[api_key |-> plaintext_key, user |-> user_name,
                         created_at |-> created.keys[created.id].created_at,
                         expires_at |-> expires_at]>>]

\* (mutant) the expiry test with its comparison turned around
Expired_reversed(row, clock) == row.expires_at # NoTime /\ clock < row.expires_at

\* the expiry test of verify_api_key
Expired(row, clock) == row.expires_at # NoTime /\ clock > row.expires_at

\* (mutant) an expired key reported by an exception that leaves verify_api_key
ExpiredOutcome_raises(keys, queries) ==
    [raised |-> "ValueError", ret |-> FALSE, keys |-> keys, queries |-> queries,
     log |-> "warning: API key expired"]

\* what verify_api_key does with an expired key: a warning, and False
ExpiredOutcome(keys, queries) ==
    [raised |-> "", ret |-> FALSE, keys |-> keys, queries |-> queries,
     log |-> "warning: API key expired"]

\* (mutant) an except clause that logs and lets the exception go on
VerifyFailed_propagates(keys, queries) ==
    [raised |-> "Exception", ret |-> FALSE, keys |-> keys, queries |-> queries,
     log |-> "error: Error verifying API key"]

\* the except clause of verify_api_key: an error line, and False
VerifyFailed(keys, queries) ==
    [raised |-> "", ret |-> FALSE, keys |-> keys, queries |-> queries,
     log |-> "error: Error verifying API key"]

\* APIKeyService.verify_api_key
verify_api_key(keys, clock, api_key, failAt) ==
    IF ~Truthy(api_key)
    THEN [raised |-> "", ret |-> FALSE, keys |-> keys, queries |-> 0, log |-> ""]
    ELSE
    LET found == get_by_key_hash(keys, api_key, DbUp(failAt, 0))
        touched == update_last_used(keys, found.id, clock, DbUp(failAt, found.queries))
    IN  IF found.raised # ""
        THEN VerifyFailed(keys, found.queries)
        ELSE IF found.id = NoRecord
        THEN [raised |-> "", ret |-> FALSE, keys |-> keys, queries |-> found.queries,
              log |-> ""]
        ELSE IF keys[found.id].is_active # 1
        THEN [raised |-> "", ret |-> FALSE, keys |-> keys, queries |-> found.queries,
              log |-> ""]
        ELSE IF Expired(keys[found.id], clock)
        THEN ExpiredOutcome(keys, found.queries)
        ELSE IF touched.raised # ""
        THEN VerifyFailed(touched.keys, found.queries + touched.queries)
        ELSE [raised |-> "", ret |-> TRUE, keys |-> touched.keys,
              queries |-> found.queries + touched.queries, log |-> ""]

\* (mutant) the dict with the stored hash among its entries
KeyInfo_with_key_hash(row, clock) ==
    [user |-> row.user_name, created_at |-> row.created_at, expires_at |-> row.expires_at,
     expires_in_days |-> IF row.expires_at # NoTime THEN row.expires_at - clock ELSE NoTime,
     last_used |-> row.last_used, key_hash |-> row.key_hash]

\* the dict get_api_key_info builds from a row
KeyInfo(row, clock) ==
    [user |-> row.user_name, created_at |-> row.created_at, expires_at |-> row.expires_at,
     expires_in_days |-> IF row.expires_at # NoTime THEN row.expires_at - clock ELSE NoTime,
     last_used |-> row.last_used]

\* (mutant) get_api_key_info that tells nothing about an expired key
get_api_key_info_unexpired_only(keys, clock, api_key, failAt) ==
    LET found == get_by_key_hash(keys, api_key, DbUp(failAt, 0))
    IN  IF found.raised # ""
        THEN [raised |-> "", ret |-> <<>>, keys |-> keys, queries |-> found.queries,
              log |-> "error: Error getting API key info"]
        ELSE IF /\ found.id # NoRecord
                /\ keys[found.id].is_active = 1
                /\ ~Expired(keys[found.id], clock)
        THEN [raised |-> "", ret |-> <<KeyInfo(keys[found.id], clock)>>, keys |-> keys,
              queries |-> found.queries, log |-> ""]
        ELSE [raised |-> "", ret |-> <<>>, keys |-> keys, queries |-> found.queries,
              log |-> ""]

\* APIKeyService.get_api_key_info: <<>> is None, <<info>> the dict
get_api_key_info(keys, clock, api_key, failAt) ==
    LET found == get_by_key_hash(keys, api_key, DbUp(failAt, 0))
    IN  IF found.raised # ""
        THEN [raised |-> "", ret |-> <<>>, keys |-> keys, queries |-> found.queries,
              log |-> "error: Error getting API key info"]
        ELSE IF found.id # NoRecord /\ keys[found.id].is_active = 1
        THEN [raised |-> "", ret |-> <<KeyInfo(keys[found.id], clock)>>, keys |-> keys,
              queries |-> found.queries, log |-> ""]
        ELSE [raised |-> "", ret |-> <<>>, keys |-> keys, queries |-> found.queries,
              log |-> ""]

\* (mutant) revoke_api_key whose closing return answers True
revoke_api_key_default_true(keys, api_key, failAt) ==
    LET found == get_by_key_hash(keys, api_key, DbUp(failAt, 0))
        done == revoke(keys, found.id, DbUp(failAt, found.queries))
    IN  IF found.raised # "" \/ found.id = NoRecord
        THEN [raised |-> "", ret |-> TRUE, keys |-> keys, queries |-> found.queries,
              log |-> ""]
        ELSE IF done.raised # ""
        THEN [raised |-> "", ret |-> TRUE, keys |-> keys,
              queries |-> found.queries + done.queries, log |-> ""]
        ELSE [raised |-> "", ret |-> done.ret, keys |-> done.keys,
              queries |-> found.queries + done.queries,
              log |-> IF done.ret THEN "info: API key revoked" ELSE ""]

\* APIKeyService.revoke_api_key
revoke_api_key(keys, api_key, failAt) ==
    LET found == get_by_key_hash(keys, api_key, DbUp(failAt, 0))
        done == revoke(keys, found.id, DbUp(failAt, found.queries))
    IN  IF found.raised # ""
        THEN [raised |-> "", ret |-> FALSE, keys |-> keys, queries |-> found.queries,
              log |-> "error: Error revoking API key"]
        ELSE IF found.id = NoRecord
        THEN [raised |-> "", ret |-> FALSE, keys |-> keys, queries |-> found.queries,
              log |-> ""]
        ELSE IF done.raised # ""
        THEN [raised |-> "", ret |-> FALSE, keys |-> keys,
              queries |-> found.queries + done.queries,
              log |-> "error: Error revoking API key"]
        ELSE [raised |-> "", ret |-> done.ret, keys |-> done.keys,
              queries |-> found.queries + done.queries,
              log |-> IF done.ret THEN "info: API key revoked" ELSE ""]

----------------------------------------------------------------------------
(* main.py: the handlers in front of the service.  A response is its status
   code, its detail text and its body (<<>> for none). *)

Response(status, detail, body) == [status |-> status, detail |-> detail, body |-> body]

\* failAt for a call made after `sent` queries of the same request
After(failAt, sent) == IF failAt > sent THEN failAt - sent ELSE 0

\* main.verify_api_key, the dependency of the /history endpoints
main_verify_api_key(keys, clock, x_api_key, failAt) ==
    LET verified == verify_api_key(keys, clock, x_api_key, failAt)
        info == get_api_key_info(verified.keys, clock, x_api_key,
                                 After(failAt, verified.queries))
    IN  IF ~Truthy(x_api_key)
        THEN [resp |-> Response(401, "API key required", <<>>), ok |-> FALSE,
              keys |-> keys, queries |-> 0]
        ELSE IF verified.raised # ""
        THEN [resp |-> Response(500, "Internal Server Error", <<>>), ok |-> FALSE,
              keys |-> verified.keys, queries |-> verified.queries]
        ELSE IF ~verified.ret
        THEN [resp |-> Response(403, "Invalid API key", <<>>), ok |-> FALSE,
              keys |-> verified.keys, queries |-> verified.queries]
        ELSE [resp |-> Response(200, "", info.ret), ok |-> TRUE,
              keys |-> info.keys, queries |-> verified.queries + info.queries]

\* the input validation of main.generate_api_key: the detail of its 400, "" for none
RequestError(user_name, description) ==
    IF ~Truthy(user_name) THEN "Invalid user_name parameter"
    ELSE IF Len(user_name) < 1 \/ Len(user_name) > MaxUserNameLen
    THEN "user_name must be 1-255 characters"
    ELSE IF ~IsAlnum(Replace(Replace(user_name, "_"), "-"))
    THEN "user_name must contain only alphanumeric characters, hyphens, and underscores"
    ELSE IF Truthy(description) /\ Len(description) > MaxDescriptionLen
    THEN "description must be 1000 characters or less"
    ELSE ""

\* main.generate_api_key
main_generate_api_key(keys, clock, days, user_name, description, plaintext_key, salt, failAt) ==
    LET err == RequestError(user_name, description)
        result == generate_api_key(keys, clock, days, user_name, description,
                                   plaintext_key, salt, failAt)
    IN  IF err # ""
        THEN [resp |-> Response(400, err, <<>>), ok |-> FALSE, keys |-> keys, queries |-> 0]
        ELSE IF result.raised # ""
        THEN [resp |-> Response(500, "Internal Server Error", <<>>), ok |-> FALSE,
              keys |-> result.keys, queries |-> result.queries]
        ELSE [resp |-> Response(200, "API key generated successfully", result.ret),
              ok |-> TRUE, keys |-> result.keys, queries |-> result.queries]

\* main.revoke_api_key
main_revoke_api_key(keys, clock, api_key, failAt) ==
    LET key_info == get_api_key_info(keys, clock, api_key, failAt)
        success == revoke_api_key(key_info.keys, api_key, After(failAt, key_info.queries))
    IN  IF ~Truthy(api_key)
        THEN [resp |-> Response(400, "Invalid api_key parameter", <<>>), ok |-> FALSE,
              keys |-> keys, queries |-> 0]
        ELSE IF success.raised # ""
        THEN [resp |-> Response(500, "Internal Server Error", <<>>), ok |-> FALSE,
              keys |-> success.keys, queries |-> key_info.queries + success.queries]
        ELSE IF success.ret
        THEN [resp |-> Response(200, "API key revoked successfully", <<>>), ok |-> TRUE,
              keys |-> success.keys, queries |-> key_info.queries + success.queries]
        ELSE [resp |-> Response(404, "API key not found", <<>>), ok |-> FALSE,
              keys |-> success.keys, queries |-> key_info.queries + success.queries]

----------------------------------------------------------------------------
(* config.Config *)

\* (mutant) the setting with a default of "0"
API_KEY_EXPIRATION_DAYS_default_zero(setting) ==
    IF setting = <<>> THEN 0 ELSE setting[1]

\* int(os.getenv("API_KEY_EXPIRATION_DAYS", "365"))
API_KEY_EXPIRATION_DAYS(setting) ==
    IF setting = <<>> THEN DefaultExpirationDays ELSE setting[1]

----------------------------------------------------------------------------
(* Inputs *)

EnvSettings == {<<>>, <<0>>, <<1>>}

ValidUserNames == {<<"a">>, <<"a", "-", "b", "_", "1">>, Rep("a", MaxUserNameLen)}

UserNames ==
    ValidUserNames \cup
    {<<>>, <<"a", " ", "b">>, <<"a", "!">>, Rep("a", MaxUserNameLen + 1),
     <<"-">>, <<"_", "-">>}

Descriptions ==
    {None, <<>>, <<"d">>, Rep("d", MaxDescriptionLen), Rep("d", MaxDescriptionLen + 1)}

\* the callers of the key lifecycle: two owners, and one name that is refused
LifecycleUserNames == {<<"a">>, <<"a", "-", "b", "_", "1">>, <<"a", " ", "b">>}

LifecycleDescriptions == {None}

\* the token the validation runs hand out
ValidationTokens == {Token("A", "A")}

FailAts == 0..MaxFailAt

\* a token is fresh when it is the plaintext of no stored key: two calls of
\* secrets.token_urlsafe(32) do not return the same 256 random bits.  A call
\* that fails validation draws no token.
Fresh(keys, plaintext_key) ==
    \A i \in 1..Len(keys): ~checkpw(plaintext_key, keys[i].key_hash)

\* clock advances taken to reach time t
Ticks(t) == t \div DefaultExpirationDays

----------------------------------------------------------------------------
(* The state machine *)

\* the query at which an operation that sent `sent` queries found the database
\* down, 0 when it found it up each time
FailedAt(failAt, sent) == IF failAt <= sent THEN failAt ELSE 0

Idle ==
    [op |-> "idle", key |-> <<>>, id |-> NoRecord, user |-> <<>>, description |-> None, failed |-> 0,
     ok |-> FALSE, out |-> <<>>, raised |-> "", detail |-> "", status |-> 0,
     queries |-> 0, log |-> "", pre |-> <<>>, at |-> 0]

\* a session in which no call has begun
NoRequest ==
    [op |-> "none", key |-> <<>>, pc |-> "idle", id |-> NoRecord, seen |-> <<>>,
     ret |-> FALSE, late |-> FALSE]

\* init_db not yet called
NotBooted ==
    [pc |-> "idle", retries |-> 0, delay |-> 0, attempt |-> 0, events |-> <<>>,
     raised |-> ""]

Init ==
    /\ api_keys = <<>>
    /\ now = 0
    /\ env \in EnvSettings
    /\ last = Idle
    /\ revoked = {}
    /\ requests = [s \in 1..MaxRequests |-> NoRequest]
    /\ boot = NotBooted

\* a direct call of APIKeyService.generate_api_key
GenerateWith(names, descriptions, tokens) ==
    \E user_name \in names, description \in descriptions,
       plaintext_key \in tokens, salt \in Salts, failAt \in 0..1:
        LET r == generate_api_key(api_keys, now, API_KEY_EXPIRATION_DAYS(env), user_name,
                                  description, plaintext_key, salt, failAt)
        IN  /\ ValidationError(user_name, description) # "" \/ Fresh(api_keys, plaintext_key)
            /\ Len(r.keys) <= MaxKeys
            /\ api_keys' = r.keys
            /\ last' = [Idle EXCEPT !.op = "generate", !.user = user_name,
                           !.description = description, !.failed = FailedAt(failAt, r.queries),
                           !.key = IF r.raised = "" THEN plaintext_key ELSE <<>>,
                           !.ok = (r.raised = ""), !.out = r.ret, !.raised = r.raised,
                           !.detail = r.detail, !.queries = r.queries, !.log = r.log,
                           !.pre = api_keys, !.at = now]
            /\ UNCHANGED <<now, env, revoked, requests, boot>>

\* a direct call of APIKeyService.verify_api_key
Verify ==
    \E api_key \in PresentedKeys, failAt \in FailAts:
        LET r == verify_api_key(api_keys, now, api_key, failAt)
        IN  /\ api_keys' = r.keys
            /\ last' = [Idle EXCEPT !.op = "verify", !.key = api_key, !.failed = FailedAt(failAt, r.queries),
                           !.ok = r.ret, !.raised = r.raised, !.queries = r.queries,
                           !.log = r.log, !.pre = api_keys, !.at = now]
            /\ UNCHANGED <<now, env, revoked, requests, boot>>

\* a direct call of APIKeyService.get_api_key_info
Info ==
    \E api_key \in PresentedKeys, failAt \in 0..1:
        LET r == get_api_key_info(api_keys, now, api_key, failAt)
        IN  /\ api_keys' = r.keys
            /\ last' = [Idle EXCEPT !.op = "info", !.key = api_key, !.failed = FailedAt(failAt, r.queries),
                           !.ok = (r.ret # <<>>), !.out = r.ret, !.raised = r.raised,
                           !.queries = r.queries, !.log = r.log, !.pre = api_keys,
                           !.at = now]
            /\ UNCHANGED <<now, env, revoked, requests, boot>>

\* a direct call of APIKeyService.revoke_api_key
Revoke ==
    \E api_key \in PresentedKeys, failAt \in FailAts:
        LET r == revoke_api_key(api_keys, api_key, failAt)
        IN  /\ api_keys' = r.keys
            /\ last' = [Idle EXCEPT !.op = "revoke", !.key = api_key, !.failed = FailedAt(failAt, r.queries),
                           !.ok = r.ret, !.raised = r.raised, !.queries = r.queries,
                           !.log = r.log, !.pre = api_keys, !.at = now]
            /\ revoked' = IF r.ret THEN revoked \cup {api_key} ELSE revoked
            /\ UNCHANGED <<now, env, requests, boot>>

\* a request to a /history endpoint: the dependency main.verify_api_key
HttpAuth ==
    \E x_api_key \in PresentedKeys \cup {None}, failAt \in FailAts:
        LET r == main_verify_api_key(api_keys, now, x_api_key, failAt)
        IN  /\ api_keys' = r.keys
            /\ last' = [Idle EXCEPT !.op = "http_auth", !.key = x_api_key,
                           !.failed = FailedAt(failAt, r.queries), !.ok = r.ok, !.out = r.resp.body,
                           !.detail = r.resp.detail, !.status = r.resp.status,
                           !.queries = r.queries, !.pre = api_keys, !.at = now]
            /\ UNCHANGED <<now, env, revoked, requests, boot>>

\* POST /admin/generate-api-key
HttpGenerateWith(names, descriptions, tokens) ==
    \E user_name \in names, description \in descriptions,
       plaintext_key \in tokens, salt \in Salts, failAt \in 0..1:
        LET r == main_generate_api_key(api_keys, now, API_KEY_EXPIRATION_DAYS(env),
                                       user_name, description, plaintext_key, salt, failAt)
        IN  /\ RequestError(user_name, description) # "" \/ Fresh(api_keys, plaintext_key)
            /\ Len(r.keys) <= MaxKeys
            /\ api_keys' = r.keys
            /\ last' = [Idle EXCEPT !.op = "http_generate", !.user = user_name,
                           !.description = description, !.failed = FailedAt(failAt, r.queries),
                           !.key = IF r.ok THEN plaintext_key ELSE <<>>,
                           !.ok = r.ok, !.out = r.resp.body, !.detail = r.resp.detail,
                           !.status = r.resp.status, !.queries = r.queries,
                           !.pre = api_keys, !.at = now]
            /\ UNCHANGED <<now, env, revoked, requests, boot>>

\* POST /admin/revoke-api-key
HttpRevoke ==
    \E api_key \in PresentedKeys \cup {None}, failAt \in FailAts:
        LET r == main_revoke_api_key(api_keys, now, api_key, failAt)
        IN  /\ api_keys' = r.keys
            /\ last' = [Idle EXCEPT !.op = "http_revoke", !.key = api_key,
                           !.failed = FailedAt(failAt, r.queries), !.ok = r.ok, !.out = r.resp.body,
                           !.detail = r.resp.detail, !.status = r.resp.status,
                           !.queries = r.queries, !.pre = api_keys, !.at = now]
            /\ revoked' = IF r.ok THEN revoked \cup {api_key} ELSE revoked
            /\ UNCHANGED <<now, env, requests, boot>>

\* time passes: as many days as the default retention
Tick ==
    /\ Ticks(now + DefaultExpirationDays) <= MaxTicks
    /\ now' = now + DefaultExpirationDays
    /\ last' = Idle
    /\ UNCHANGED <<api_keys, env, revoked, requests, boot>>

Generate == GenerateWith(LifecycleUserNames, LifecycleDescriptions, Tokens)

HttpGenerate == HttpGenerateWith(LifecycleUserNames, LifecycleDescriptions, Tokens)

GenerateAny == GenerateWith(UserNames, Descriptions, ValidationTokens)

HttpGenerateAny == HttpGenerateWith(UserNames, Descriptions, ValidationTokens)

\* the one owner of the store runs
StoreUserNames == {<<"a">>}

\* the ids a caller of the repository may pass: none, each row, one past the last
KeyIds == 0..(MaxKeys + 1)

GenerateStore == GenerateWith(StoreUserNames, LifecycleDescriptions, Tokens)

\* a direct call of APIKeyRepository.revoke
StoreRevoke ==
    \E key_id \in KeyIds, failAt \in 0..1:
        LET r == revoke(api_keys, key_id, DbUp(failAt, 0))
        IN  /\ api_keys' = r.keys
            /\ last' = [Idle EXCEPT !.op = "store_revoke", !.id = key_id,
                           !.failed = FailedAt(failAt, r.queries), !.ok = r.ret,
                           !.raised = r.raised, !.queries = r.queries,
                           !.pre = api_keys, !.at = now]
            /\ UNCHANGED <<now, env, revoked, requests, boot>>

\* the stored hash of a row is damaged (key_hash stays unique in its column)
Corrupt ==
    \E i \in 1..Len(api_keys):
        /\ \A j \in 1..Len(api_keys): api_keys[j].key_hash # InvalidHash
        /\ api_keys' = [api_keys EXCEPT ![i].key_hash = InvalidHash]
        /\ last' = [Idle EXCEPT !.op = "corrupt", !.id = i, !.pre = api_keys, !.at = now]
        /\ UNCHANGED <<now, env, revoked, requests, boot>>

\* a call of verify_api_key or revoke_api_key begins in a session of its own
Start(s) ==
    \E op \in {"verify", "revoke"}, api_key \in Tokens:
        /\ requests[s].pc = "idle"
        /\ requests' = [requests EXCEPT ![s] =
                           [NoRequest EXCEPT !.op = op, !.key = api_key, !.pc = "lookup"]]
        /\ UNCHANGED <<api_keys, now, env, last, revoked, boot>>

\* the call runs get_by_key_hash: its session loads the row it finds.  What
\* verify_api_key tests next, it tests on the row as loaded.
Lookup(s) ==
    LET r == requests[s]
        found == get_by_key_hash(api_keys, r.key, TRUE)
        row == api_keys[found.id]
    IN  /\ r.pc = "lookup"
        /\ requests' = [requests EXCEPT ![s] =
              IF found.id = NoRecord
              THEN [r EXCEPT !.pc = "done", !.ret = FALSE]
              ELSE IF r.op = "verify" /\ (row.is_active # 1 \/ Expired(row, now))
              THEN [r EXCEPT !.pc = "done", !.ret = FALSE, !.id = found.id, !.seen = <<row>>]
              ELSE [r EXCEPT !.pc = IF r.op = "verify" THEN "touch" ELSE "write",
                             !.id = found.id, !.seen = <<row>>]]
        /\ UNCHANGED <<api_keys, now, env, last, revoked, boot>>

\* verify_api_key goes on to update_last_used and returns
Touch(s) ==
    LET r == requests[s]
        touched == update_last_used(api_keys, r.id, now, TRUE)
    IN  /\ r.pc = "touch"
        /\ api_keys' = touched.keys
        /\ requests' = [requests EXCEPT ![s] =
                           [r EXCEPT !.pc = "done", !.ret = (touched.raised = ""),
                                     !.late = (api_keys[r.id].is_active = 0)]]
        /\ UNCHANGED <<now, env, last, revoked, boot>>

\* revoke_api_key goes on to revoke(id), which commits, and returns
Write(s) ==
    LET r == requests[s]
        done == revoke(api_keys, r.id, TRUE)
    IN  /\ r.pc = "write"
        /\ api_keys' = done.keys
        /\ requests' = [requests EXCEPT ![s] =
                           [r EXCEPT !.pc = "done", !.ret = done.ret,
                                     !.late = (api_keys[r.id].is_active = 0)]]
        /\ revoked' = IF done.ret THEN revoked \cup {r.key} ELSE revoked
        /\ UNCHANGED <<now, env, last, boot>>

\* keys are generated while calls are in progress
GenerateDuring ==
    /\ GenerateWith(StoreUserNames, LifecycleDescriptions, Tokens)
    /\ last'.ok

\* the service called directly
Next ==
    \/ Generate
    \/ Verify
    \/ Info
    \/ Revoke
    \/ Tick

Spec == Init /\ [][Next]_vars

\* the service behind the HTTP handlers
NextHttp ==
    \/ HttpGenerate
    \/ HttpAuth
    \/ HttpRevoke
    \/ Tick

SpecHttp == Init /\ [][NextHttp]_vars

\* the repository called directly, and a table with a damaged hash
NextStore ==
    \/ GenerateStore
    \/ Corrupt
    \/ StoreRevoke
    \/ Verify
    \/ Info
    \/ Revoke

SpecStore == Init /\ [][NextStore]_vars

\* calls of the service that run at the same time, their queries interleaved
NextConcurrent ==
    \/ GenerateDuring
    \/ \E s \in 1..MaxRequests: Start(s)
    \/ \E s \in 1..MaxRequests: Lookup(s)
    \/ \E s \in 1..MaxRequests: Touch(s)
    \/ \E s \in 1..MaxRequests: Write(s)

SpecConcurrent == Init /\ [][NextConcurrent]_vars

\* the values of `retries` and `delay` init_db is called with
RetryCounts == -1..MaxRetries

Delays == {0, DefaultDelay}

\* the exceptions Base.metadata.create_all may raise
CreateErrors == {"OperationalError", "TimeoutError"}

\* an event of a call of init_db: an attempt with its result ("ok" or the
\* exception raised), or a sleep with its seconds
AttemptEvent(result) == [kind |-> "attempt", result |-> result, seconds |-> 0]

SleepEvent(seconds) == [kind |-> "sleep", result |-> "", seconds |-> seconds]

\* for attempt in range(1, retries + 1): the body runs, or the loop is
\* exhausted and init_db returns
range_next(attempt, retries) == IF attempt <= retries THEN "try" ELSE "returned"

\* (mutant) the except clause that also sleeps after the last attempt
AfterFailure_sleeps_always(attempt, retries) ==
    IF attempt <= retries THEN "sleep" ELSE "raised"

\* the except clause of init_db: sleep and go on, or re-raise
AfterFailure(attempt, retries) == IF attempt < retries THEN "sleep" ELSE "raised"

\* init_db(retries, delay) is called
CallInitDb ==
    \E retries \in RetryCounts, delay \in Delays:
        /\ boot.pc = "idle"
        /\ boot' = [NotBooted EXCEPT !.retries = retries, !.delay = delay, !.attempt = 1,
                                     !.pc = range_next(1, retries)]
        /\ UNCHANGED <<api_keys, now, env, last, revoked, requests>>

\* Base.metadata.create_all(bind=engine) succeeds, and init_db returns
AttemptOk ==
    /\ boot.pc = "try"
    /\ boot' = [boot EXCEPT !.events = Append(@, AttemptEvent("ok")), !.pc = "returned"]
    /\ UNCHANGED <<api_keys, now, env, last, revoked, requests>>

\* Base.metadata.create_all(bind=engine) raises
AttemptFails ==
    \E e \in CreateErrors:
        /\ boot.pc = "try"
        /\ boot' = [boot EXCEPT !.events = Append(@, AttemptEvent(e)),
                                !.pc = AfterFailure(boot.attempt, boot.retries),
                                !.raised = IF AfterFailure(boot.attempt, boot.retries) = "raised"
                                           THEN e ELSE ""]
        /\ UNCHANGED <<api_keys, now, env, last, revoked, requests>>

\* time.sleep(delay), and the loop takes its next attempt
Sleep ==
    /\ boot.pc = "sleep"
    /\ boot' = [boot EXCEPT !.events = Append(@, SleepEvent(boot.delay)),
                            !.attempt = @ + 1,
                            !.pc = range_next(boot.attempt + 1, boot.retries)]
    /\ UNCHANGED <<api_keys, now, env, last, revoked, requests>>

\* the startup of the application: one call of init_db
NextInitDb ==
    \/ CallInitDb
    \/ AttemptOk
    \/ AttemptFails
    \/ Sleep

\* every call of create_all and of time.sleep returns or raises, so the one
\* thread that runs init_db goes on to its next step
SpecInitDb == Init /\ [][NextInitDb]_vars /\ WF_vars(NextInitDb)

\* key generation over every owner name and description
NextGenerate ==
    \/ GenerateAny
    \/ HttpGenerateAny

SpecGenerate == Init /\ [][NextGenerate]_vars

----------------------------------------------------------------------------
(* Properties *)

\* the rows of a table that belong to a presented key: its prefix and its hash
Matching(keys, k) ==
    {i \in 1..Len(keys):
        /\ Len(k) >= PrefixLen
        /\ keys[i].key_prefix = Slice(k, PrefixLen)
        /\ checkpw(k, keys[i].key_hash)}

\* the key has a row that is active and has not expired at time t
Live(keys, k, t) ==
    \E i \in Matching(keys, k):
        /\ keys[i].is_active = 1
        /\ (keys[i].expires_at = NoTime \/ t <= keys[i].expires_at)

\* the key has a row that is active and expired before time t
ExpiredActive(keys, k, t) ==
    \E i \in Matching(keys, k):
        /\ keys[i].is_active = 1
        /\ keys[i].expires_at # NoTime
        /\ keys[i].expires_at < t

\* the key has a row that was revoked
AlreadyRevoked(keys, k) == \E i \in Matching(keys, k): keys[i].is_active = 0

\* C1: a key that was generated, is not revoked and has not expired verifies
\* as valid while the database is reachable, and the info reported for it
\* names the owner it was generated for.
C1_VerifyAfterGenerate ==
    /\ (last.op = "verify" /\ last.failed = 0 /\ Live(last.pre, last.key, last.at))
           => last.ok
    /\ (last.op = "info" /\ last.failed = 0 /\ Live(last.pre, last.key, last.at))
           => /\ last.out # <<>>
              /\ \A i \in Matching(last.pre, last.key):
                    last.out[1].user = last.pre[i].user_name

\* C2: once revoke_api_key(K) has returned True, every verify_api_key(K) returns
\* False, whatever was generated, verified or revoked in between; with the
\* database reachable it does so as for an unknown key, logging nothing.
C2_RevokedStaysInvalid ==
    (last.op = "verify" /\ last.key \in revoked)
        => /\ ~last.ok
           /\ last.raised = ""
           /\ (last.failed = 0 => last.log = "")

C2_Witness ==
    /\ last.op = "verify"
    /\ last.key \in revoked
    /\ last.failed = 0
    /\ \E i \in 1..Len(api_keys): api_keys[i].is_active = 1 /\ api_keys[i].id > 1

\* C3: verify_api_key returns False for a key whose row is still active but
\* has an expires_at earlier than the clock; with the database reachable it is
\* the expiry check that decides, logging its warning.
C3_ExpiredIsInvalid ==
    (last.op = "verify" /\ ExpiredActive(last.pre, last.key, last.at))
        => /\ ~last.ok
           /\ (last.failed = 0 => last.log = "warning: API key expired")

C3_Witness ==
    /\ last.op = "verify"
    /\ last.failed = 0
    /\ ExpiredActive(last.pre, last.key, last.at)
    /\ \A i \in Matching(api_keys, last.key): api_keys[i].is_active = 1

\* C4 as claimed: revoke_api_key on a key that is already revoked returns True.
C4_SecondRevokeTrue ==
    (last.op = "revoke" /\ last.failed = 0 /\ AlreadyRevoked(last.pre, last.key))
        => last.ok

\* C4 as amended: revoke_api_key on a key that is already revoked returns False
\* and leaves the table as it was (the lookup sees active rows only), and a
\* verify_api_key of that key is still False.
C4_SecondRevokeFalse ==
    /\ (last.op = "revoke" /\ AlreadyRevoked(last.pre, last.key))
           => (~last.ok /\ api_keys = last.pre)
    /\ (last.op = "verify" /\ AlreadyRevoked(last.pre, last.key)) => ~last.ok

C4_Witness ==
    /\ last.op = "revoke"
    /\ last.failed = 0
    /\ last.key \in revoked
    /\ AlreadyRevoked(last.pre, last.key)

\* the characters the claims allow in an owner name
AllowedChars == AlnumChars \cup {"-", "_"}

\* an owner name of 1-255 allowed characters
ValidOwner(n) ==
    /\ Len(n) >= 1
    /\ Len(n) <= MaxUserNameLen
    /\ \A i \in 1..Len(n): n[i] \in AllowedChars

\* an owner name that is empty, too long, or has a character that is not allowed
InvalidOwner(n) ==
    \/ Len(n) = 0
    \/ Len(n) > MaxUserNameLen
    \/ \E i \in 1..Len(n): n[i] \notin AllowedChars

TooLongDescription(d) == d # None /\ Len(d) > MaxDescriptionLen

\* C5 as claimed: for every owner name of 1-255 alphanumeric characters,
\* hyphens and underscores (names of hyphens and underscores alone included)
\* generate_api_key succeeds, returns a plaintext of at least 8 characters and
\* stores a row whose key_prefix is the first 8 characters of that plaintext.
C5_ValidOwnerGenerates ==
    (/\ last.op = "generate"
     /\ last.failed = 0
     /\ ValidOwner(last.user)
     /\ ~TooLongDescription(last.description))
        => /\ last.ok
           /\ Len(last.key) >= PrefixLen
           /\ Len(api_keys) = Len(last.pre) + 1
           /\ api_keys[Len(api_keys)].key_prefix = Slice(last.key, PrefixLen)
           /\ api_keys[Len(api_keys)].user_name = last.user

\* C6: generate_api_key with an owner name that is empty, longer than 255
\* characters or has a character outside the allowed set, or with a description
\* longer than 1000 characters, fails with a validation error that says why
\* (a ValueError from the service, a 400 from the endpoint) and stores no row.
C6_InvalidInputRejected ==
    (/\ last.op \in {"generate", "http_generate"}
     /\ (InvalidOwner(last.user) \/ TooLongDescription(last.description)))
        => /\ ~last.ok
           /\ api_keys = last.pre
           /\ last.detail # ""
           /\ (last.op = "generate" => last.raised = "ValueError")
           /\ (last.op = "http_generate" => last.status = 400)

C6_Witness ==
    /\ last.op = "generate"
    /\ Len(last.user) > MaxUserNameLen
    /\ last.raised = "ValueError"
    /\ Len(api_keys) > 0

\* C7 as claimed: when the lookup of a presented key finds the database
\* unreachable, the dependency answers with a server-side error and not with
\* an authentication rejection.
C7_StorageErrorDistinct ==
    (last.op = "http_auth" /\ last.failed = 1) => last.status >= 500

\* C7 as amended: when the lookup of a presented key finds the database
\* unreachable, verify_api_key catches the exception and returns False, so the
\* dependency answers 403 "Invalid API key", as it does for invalid credentials.
C7_StorageErrorIsRejection ==
    (last.op = "http_auth" /\ last.failed = 1)
        => /\ ~last.ok
           /\ last.status = 403
           /\ last.detail = "Invalid API key"
           /\ api_keys = last.pre

C7_Witness ==
    /\ last.op = "http_auth"
    /\ last.failed = 1
    /\ Live(last.pre, last.key, last.at)

\* C8: when the key has an active, unexpired row, the lookup succeeds and the
\* update of last_used raises, verify_api_key still returns True.
C8_TouchFailureIgnored ==
    (/\ last.op = "verify"
     /\ last.failed # 1
     /\ Live(last.pre, last.key, last.at)
     /\ \A i \in Matching(last.pre, last.key):
           update_last_used(last.pre, i, last.at, last.failed # 2).raised # "")
        => last.ok

\* C9: verify_api_key on the empty string or on a string shorter than 8
\* characters returns False, raises nothing and sends no query.
C9_ShortKeyNoQuery ==
    (last.op = "verify" /\ Len(last.key) < PrefixLen)
        => /\ ~last.ok
           /\ last.raised = ""
           /\ last.queries = 0
           /\ api_keys = last.pre

C9_Witness ==
    /\ last.op = "verify"
    /\ Len(last.key) > 0
    /\ Len(last.key) < PrefixLen
    /\ Len(api_keys) > 0

\* the response to a key that is not accepted, as a function of the key alone
Rejection(k) ==
    IF Truthy(k) THEN Response(403, "Invalid API key", <<>>)
    ELSE Response(401, "API key required", <<>>)

\* C10: a presented key that is not the key of an active, unexpired row gets a
\* response that depends on the key alone: the same 403 whether the key is too
\* short, unknown, of a matching prefix only, revoked or expired (and 401 when
\* no key was sent), whatever the table holds.
C10_OneRejection ==
    (last.op = "http_auth" /\ ~Live(last.pre, last.key, last.at))
        => /\ ~last.ok
           /\ Response(last.status, last.detail, last.out) = Rejection(last.key)
           /\ api_keys = last.pre

C10_Witness ==
    /\ last.op = "http_auth"
    /\ last.failed = 0
    /\ last.status = 403
    /\ ExpiredActive(last.pre, last.key, last.at)

\* the active rows of a table that have the prefix of a presented key
SamePrefix(keys, k) ==
    {i \in 1..Len(keys):
        /\ Len(k) >= PrefixLen
        /\ keys[i].key_prefix = Slice(k, PrefixLen)
        /\ keys[i].is_active = 1}

\* the active rows of a table that belong to a presented key
ActiveMatching(keys, k) == {i \in Matching(keys, k): keys[i].is_active = 1}

\* C11: among active rows of one prefix the lookup picks a row only by its
\* hash: a revocation that returns True has revoked a row whose hash matches
\* the presented key and no other, the info returned is that row's, and a key
\* that has the prefix of active rows and the hash of none is refused by
\* verify_api_key, get_api_key_info and revoke_api_key, which change nothing.
C11_HashDecides ==
    /\ (last.op = "revoke" /\ last.ok)
           => \E i \in ActiveMatching(last.pre, last.key):
                 api_keys = [last.pre EXCEPT ![i].is_active = 0]
    /\ (last.op = "info" /\ last.ok)
           => \E i \in ActiveMatching(last.pre, last.key):
                 /\ last.out[1].user = last.pre[i].user_name
                 /\ last.out[1].created_at = last.pre[i].created_at
    /\ (/\ last.op \in {"verify", "info", "revoke"}
        /\ SamePrefix(last.pre, last.key) # {}
        /\ ActiveMatching(last.pre, last.key) = {})
           => (~last.ok /\ api_keys = last.pre)

\* two active rows of one prefix, and the key of the second revoked
C11_Witness ==
    /\ last.op = "revoke"
    /\ last.ok
    /\ Cardinality(SamePrefix(last.pre, last.key)) = 2
    /\ ActiveMatching(last.pre, last.key) = {2}
    /\ api_keys[1].is_active = 1
    /\ api_keys[2].is_active = 0

\* C12: revoke_api_key(K) returns False and leaves every row as it was when no
\* active row has the prefix and the hash of K: K was never generated, is
\* shorter than 8 characters, or has only its prefix in the table.
C12_RevokeUnknownFalse ==
    (last.op = "revoke" /\ ActiveMatching(last.pre, last.key) = {})
        => /\ ~last.ok
           /\ last.raised = ""
           /\ api_keys = last.pre

\* the bare prefix of a stored key presented for revocation
C12_Witness ==
    /\ last.op = "revoke"
    /\ last.failed = 0
    /\ Len(last.key) = PrefixLen
    /\ SamePrefix(last.pre, last.key) # {}
    /\ ~last.ok

\* the row a successful generate_api_key has just stored
Created == api_keys[Len(api_keys)]

\* C13 as claimed: generate_api_key stores expires_at = None when the
\* retention-days setting is 0 or absent, and the creation time plus that many
\* days when it is positive.
C13_AbsentNeverExpires ==
    (last.op = "generate" /\ last.ok)
        => Created.expires_at =
              IF env = <<>> \/ env[1] = 0 THEN NoTime ELSE Created.created_at + env[1]

\* C13 as amended: generate_api_key stores (and returns) expires_at = None when
\* the setting is 0, the creation time plus that many days when it is positive,
\* and the creation time plus 365 days when it is absent, 365 being the default
\* of the setting.
C13_AbsentIsDefault ==
    (last.op = "generate" /\ last.ok)
        => /\ Created.created_at = last.at
           /\ Created.expires_at =
                 IF env = <<>> THEN Created.created_at + DefaultExpirationDays
                 ELSE IF env[1] = 0 THEN NoTime
                 ELSE Created.created_at + env[1]
           /\ last.out[1].expires_at = Created.expires_at

\* a key generated, later than day 0, with the setting absent
C13_Witness ==
    /\ last.op = "generate"
    /\ last.ok
    /\ env = <<>>
    /\ last.at > 0
    /\ Created.expires_at = last.at + DefaultExpirationDays

\* the columns of a row that hold text
TextColumns == {"key_prefix", "user_name", "description"}

\* what get_api_key_info tells about a key: owner and dates
InfoFields == {"user", "created_at", "expires_at", "expires_in_days", "last_used"}

\* C14: the plaintext of a key is in the return value of the generate_api_key
\* call that made it and nowhere else: every row holds the hash of its key and
\* a prefix of 8 characters, no text column of a row holds the plaintext,
\* verify_api_key and revoke_api_key return a boolean only, and the dict of
\* get_api_key_info has the owner and the dates only, neither key nor hash.
C14_PlaintextOnlyAtGenerate ==
    /\ \A i \in 1..Len(api_keys):
          /\ DOMAIN api_keys[i] = APIKeyColumns
          /\ Len(api_keys[i].key_prefix) = PrefixLen
          /\ \A k \in Tokens:
                checkpw(k, api_keys[i].key_hash)
                    => \A c \in TextColumns: api_keys[i][c] # k
    /\ (last.op = "generate" /\ last.ok)
          => /\ last.out[1].api_key = last.key
             /\ checkpw(last.key, Created.key_hash)
             /\ Created.key_prefix = Slice(last.key, PrefixLen)
    /\ last.op \in {"verify", "revoke"} => last.out = <<>>
    /\ (last.op = "info" /\ last.ok)
          => /\ DOMAIN last.out[1] = InfoFields
             /\ last.out[1].user # last.key

\* the info of a stored key, asked for with its plaintext
C14_Witness ==
    /\ last.op = "info"
    /\ last.ok
    /\ last.key \in Tokens
    /\ Len(api_keys) = MaxKeys

\* the columns no operation writes after the insert
FixedColumns ==
    {"id", "key_prefix", "key_hash", "user_name", "description", "created_at", "expires_at"}

\* a step from table `before` to table `after` deletes no row, writes no fixed
\* column and reactivates no row
RowsKept(before, after) ==
    /\ Len(after) >= Len(before)
    /\ \A i \in 1..Len(before):
          /\ \A c \in FixedColumns: after[i][c] = before[i][c]
          /\ after[i].is_active <= before[i].is_active
          /\ after[i].is_active \in {0, 1}

\* C15: no step of generate_api_key, verify_api_key, get_api_key_info or
\* revoke_api_key deletes a row or changes its id, key_prefix, key_hash,
\* user_name, description, created_at or expires_at; is_active goes from 1 to 0
\* only, never back.
C15_RecordsKept == [][RowsKept(api_keys, api_keys')]_vars

\* a revoked row kept in the table while a later key is generated
C15_Witness ==
    /\ last.op = "generate"
    /\ last.ok
    /\ Len(api_keys) = 2
    /\ api_keys[1].is_active = 0
    /\ api_keys[1].expires_at # NoTime

\* C20: with the database reachable, revoke_api_key(K) returns True and sets
\* the row inactive whenever K has an active row, whether or not its expires_at
\* has passed, and get_api_key_info(K) reports such a row's owner and dates,
\* with a negative number of days left when the row has expired.
C20_ExpiryIgnored ==
    /\ (last.op = "revoke" /\ last.failed = 0)
          => \A i \in ActiveMatching(last.pre, last.key):
                /\ last.ok
                /\ api_keys = [last.pre EXCEPT ![i].is_active = 0]
    /\ (last.op = "info" /\ last.failed = 0)
          => \A i \in ActiveMatching(last.pre, last.key):
                /\ last.ok
                /\ last.out[1].user = last.pre[i].user_name
                /\ last.out[1].expires_at = last.pre[i].expires_at
                /\ last.pre[i].expires_at # NoTime
                      => last.out[1].expires_in_days = last.pre[i].expires_at - last.at

\* an expired key revoked
C20_Witness ==
    /\ last.op = "revoke"
    /\ last.ok
    /\ ExpiredActive(last.pre, last.key, last.at)

\* the active rows with the prefix of a presented key whose hash cannot be parsed
InvalidCandidates(keys, k) == {i \in SamePrefix(keys, k): checkpw_raises(keys[i].key_hash)}

\* C17: a candidate row whose stored hash cannot be parsed counts as no match
\* and is skipped: with the database reachable the lookup raises nothing and
\* logs no error, a later candidate of the same prefix whose hash matches the
\* presented key is still found (its info is returned, its revocation returns
\* True and revokes that row), and a key with no other candidate gets None.
C17_InvalidHashSkipped ==
    (/\ last.op \in {"info", "revoke"}
     /\ last.failed = 0
     /\ InvalidCandidates(last.pre, last.key) # {})
        => /\ last.raised = ""
           /\ last.log \in {"", "info: API key revoked"}
           /\ \A i \in ActiveMatching(last.pre, last.key):
                 /\ last.ok
                 /\ last.op = "revoke" => api_keys = [last.pre EXCEPT ![i].is_active = 0]
                 /\ last.op = "info" => last.out[1].created_at = last.pre[i].created_at
           /\ ActiveMatching(last.pre, last.key) = {} => (~last.ok /\ api_keys = last.pre)

\* the first candidate damaged, the second one found and revoked
C17_Witness ==
    /\ last.op = "revoke"
    /\ last.ok
    /\ InvalidCandidates(last.pre, last.key) = {1}
    /\ ActiveMatching(last.pre, last.key) = {2}
    /\ api_keys[2].is_active = 0

\* C18: with the database reachable, APIKeyRepository.revoke(id) sets is_active
\* to 0 and returns True exactly when a row has that id, an already revoked
\* row included (nothing changes then); with no such row it returns False and
\* changes nothing.
C18_StoreRevoke ==
    (last.op = "store_revoke" /\ last.failed = 0)
        => IF last.id \in 1..Len(last.pre)
           THEN /\ last.ok
                /\ api_keys = [last.pre EXCEPT ![last.id].is_active = 0]
           ELSE /\ ~last.ok
                /\ api_keys = last.pre

\* revoke(id) on a row that is already revoked
C18_Witness ==
    /\ last.op = "store_revoke"
    /\ last.ok
    /\ last.id \in 1..Len(last.pre)
    /\ last.pre[last.id].is_active = 0
    /\ api_keys = last.pre

\* the calls of revoke_api_key that found their row and have returned
Revoked == {s \in 1..MaxRequests:
               requests[s].op = "revoke" /\ requests[s].pc = "done"
               /\ requests[s].id # NoRecord}

\* C16: when a revocation and a verification of the same key run at the same
\* time, however their queries interleave, a revocation that found the row
\* returns True and the row is inactive from then on: the last-used step of a
\* verification that loaded the row while it was active does not bring it back.
\* Every row a call has loaded is a row as it was committed: the columns fixed
\* at insert, and is_active = 1.
C16_RevocationStands ==
    /\ \A s \in Revoked:
          /\ requests[s].ret
          /\ api_keys[requests[s].id].is_active = 0
    /\ \A k \in revoked: ActiveMatching(api_keys, k) = {}
    /\ \A s \in 1..MaxRequests:
          requests[s].seen # <<>>
              => /\ requests[s].seen[1].is_active = 1
                 /\ \A c \in FixedColumns:
                       requests[s].seen[1][c] = api_keys[requests[s].id][c]

\* a verification that loaded the row before the revocation committed and ran
\* its last-used step after it, both calls returned
C16_Witness ==
    \E s \in Revoked, t \in 1..MaxRequests:
        /\ requests[t].op = "verify"
        /\ requests[t].pc = "done"
        /\ requests[t].id = requests[s].id
        /\ requests[t].late
        /\ requests[s].ret

\* the attempts among the events of a call of init_db
AttemptsMade(events) == {i \in 1..Len(events): events[i].kind = "attempt"}

\* the call of init_db has returned or raised
InitDbDone == boot.pc \in {"returned", "raised"}

\* attempts and sleeps alternate, beginning with an attempt; a sleep follows a
\* failed attempt and lasts `delay` seconds; nothing follows a success
EventsInOrder(b) ==
    \A i \in 1..Len(b.events):
        /\ (i % 2 = 1) <=> (b.events[i].kind = "attempt")
        /\ b.events[i].kind = "sleep"
              => (b.events[i].seconds = b.delay /\ b.events[i - 1].result # "ok")
        /\ (b.events[i].kind = "attempt" /\ b.events[i].result = "ok")
              => i = Len(b.events)

\* init_db has raised: after `retries` attempts, all failed, the last one's
\* exception, and no sleep after it
RaisedLast(b) ==
    /\ Cardinality(AttemptsMade(b.events)) = b.retries
    /\ \A i \in AttemptsMade(b.events): b.events[i].result # "ok"
    /\ b.events[Len(b.events)].kind = "attempt"
    /\ b.raised = b.events[Len(b.events)].result

\* init_db has returned from an attempt that succeeded
ReturnedOk(b) ==
    /\ Len(b.events) > 0
    /\ b.events[Len(b.events)] = AttemptEvent("ok")

InitDbSafe ==
    /\ Cardinality(AttemptsMade(boot.events)) <= (IF boot.retries > 0 THEN boot.retries ELSE 0)
    /\ EventsInOrder(boot)
    /\ (boot.pc = "returned" /\ boot.retries >= 1) => ReturnedOk(boot)
    /\ (boot.pc = "returned" /\ boot.retries < 1) => boot.events = <<>>
    /\ boot.pc = "raised" => (boot.retries >= 1 /\ RaisedLast(boot))

====
